---- MODULE Spec2Model ----
(***************************************************************************)
(* A model of wfsim/core.py: the instruction scheduler RawData.__call__    *)
(* with sim_data, the waveform superposition Pulse.add_current, and the    *)
(* pulse cache drain RawData.digitize_pulse_cache.                         *)
(*                                                                         *)
(* Three specifications share the variables:                               *)
(*   Spec / FairSpec  the scheduler, started on a bounded instruction array *)
(*   SpecPulse        add_current on bounded photon arrays                 *)
(*   SpecDigit        digitize_pulse_cache on a bounded pulse cache        *)
(* A specification leaves the variables of the others at their idle value. *)
(***************************************************************************)
EXTENDS Integers, Sequences, FiniteSets, TLC

VARIABLES
    \* ---- RawData.__call__ -------------------------------------------
    pc,                   \* position of the generator in the main loop
    instructions,         \* the input array, until the first pass
    inst_time,            \* its effective times, until the first pass
    inst_queue,           \* pending clusters: instructions[ixs] of each
    instb,                \* instruction buffer, slot -> instruction
    instb_filled,         \* mask of the filled slots
    source_finished,
    last_pulse_end_time,
    pulses_cache,         \* self._pulses_cache
    config,               \* the configuration keys an instruction can override
    instb_indx,           \* B) filled slots, as of the last re-clustering
    instb_time,           \* B) their effective times
    instb_type,           \* B) their types
    instb_queue,          \* B) clusters: positions into instb_indx
    ci,                   \* D) cluster of instb_queue being run
    bi,                   \* D) next batch of that cluster
    stop_at_this_group,
    hist,                 \* history: what the run has done so far
    \* ---- Pulse.add_current ------------------------------------------
    ppc,                  \* position inside add_current
    photon_timings,
    photon_gains,
    pulse_left,
    i_photons,            \* argsort of the photon timings
    ip,                   \* loop position in i_photons
    gain_total,
    tmp_photon_timing,
    deposits,             \* the template deposits made into pulse_current
    \* ---- RawData.digitize_pulse_cache -------------------------------
    dpc,                  \* position inside digitize_pulse_cache
    dcache,               \* the pulse cache it drains
    detector,
    left,
    right,
    raw_data,             \* channel -> sample index -> adc count
    channel_mask,         \* channel -> [mask, left, right]
    \* ---- RawData.ZLE -------------------------------------------------
    zpc,                  \* position inside ZLE
    zix,                  \* the row of raw_data it visits next
    records,              \* the tuples it has yielded, in order
    touched,              \* history: the rows the last window deposited into
    \* ---- Pulse.__call__ --------------------------------------------
    cpc,                  \* position inside Pulse.__call__
    pulse,                \* the Pulse object: its photon arrays and _pulses
    todo,                 \* the (channel, counts) pairs still to visit
    counts_start,
    \* ---- get_truth -------------------------------------------------
    truth_buffer          \* the rows of the truth buffer; <<>> when none is given

schedVars == <<pc, instructions, inst_time, inst_queue, instb, instb_filled, source_finished,
               last_pulse_end_time, pulses_cache, config, instb_indx,
               instb_time, instb_type, instb_queue, ci, bi,
               stop_at_this_group, hist, truth_buffer>>
pulseVars == <<ppc, photon_timings, photon_gains, pulse_left, i_photons, ip,
               gain_total, tmp_photon_timing, deposits>>
digitVars == <<dpc, dcache, detector, left, right, raw_data, channel_mask>>
zleVars == <<zpc, zix, records>>
callVars == <<cpc, pulse, todo, counts_start>>
vars == <<schedVars, pulseVars, digitVars, zleVars, touched, callVars>>

(***************************************************************************)
(* Bounds of the model.                                                    *)
(***************************************************************************)
\* slots of the instruction buffer (100000 in the source, line 843)
BufferSize == 3
\* instructions in the input array
MaxInst == 3
\* largest instruction time, in ns
MaxTime == 1
\* secondaries one generate_instruction call returns at most
MaxSecondary == 1
\* longest window digitize_pulse_cache accepts (200000 in the source, line 967)
WindowCap == 6

(***************************************************************************)
(* Configuration values read by the code.                                  *)
(***************************************************************************)
drift_velocity_liquid == 2
right_raw_extension == 1
trigger_window == 1
sample_duration == 10
NegInf == -1000

\* PULSE_TYPE_NAMES, by type code
PULSE_TYPE_NAMES == <<"s1", "s2", "unknown", "pi_el", "pmt_ap", "pe_el">>
symtype(ptype) == PULSE_TYPE_NAMES[ptype]

Min(S) == CHOOSE x \in S : \A y \in S : x <= y
Max(S) == CHOOSE x \in S : \A y \in S : x >= y
Range(s) == {s[k] : k \in 1..Len(s)}

(***************************************************************************)
(* Clustering: effective time, argsort, split at gaps > rext.              *)
(***************************************************************************)
\* the other sign convention: a factor +1 for even, -1 for odd types
SignedInstTime(inst) ==
    inst.time + (inst.z \div drift_velocity_liquid)
                * (IF inst.type % 2 = 0 THEN 1 ELSE -1)

\* line 838 and lines 864-865: time + z / v * (type % 2 - 1); every z of the
\* model is a multiple of v, so the quotient is exact
InstTime(inst) ==
    inst.time + (inst.z \div drift_velocity_liquid) * ((inst.type % 2) - 1)

\* np.argsort of a sequence of keys, ties kept in index order
Argsort(t) ==
    LET n == Len(t)
        rank(i) == Cardinality({j \in 1..n : t[j] < t[i] \/ (t[j] = t[i] /\ j < i)})
    IN  [r \in 1..n |-> CHOOSE i \in 1..n : rank(i) = r - 1]

\* a clustering that also cuts at a gap of exactly rext
SplitPointsGE(t, q) ==
    {k \in 1..(Len(q) - 1) : t[q[k + 1]] - t[q[k]] >= right_raw_extension}

\* np.where(np.diff(t[q]) > rext)[0]: the positions after which q is cut
SplitPoints(t, q) ==
    {k \in 1..(Len(q) - 1) : t[q[k + 1]] - t[q[k]] > right_raw_extension}

\* np.split(q, cuts + 1): always at least one piece, empty when q is empty
Split(q, cuts) ==
    LET piece(k) == Cardinality({c \in cuts : c < k}) + 1
    IN  [c \in 1..(Cardinality(cuts) + 1) |->
            SelectSeq(q, LAMBDA x : piece(CHOOSE k \in 1..Len(q) : q[k] = x) = c)]

Cluster(t) == LET q == Argsort(t) IN Split(q, SplitPoints(t, q))

(***************************************************************************)
(* RawData.__call__: the instruction buffer and the main loop.             *)
(***************************************************************************)
Slots == 1..BufferSize
NoOverride == -1
\* np.zeros(..., dtype=instructions.dtype)
ZeroInst == [type |-> 0, time |-> 0, z |-> 0, ov |-> 0]

\* np.where(mask)[0]: the slots where mask holds, ascending
Where(mask) ==
    LET S == {s \in Slots : mask[s]}
        nth(k) == CHOOSE s \in S : Cardinality({u \in S : u < s}) = k - 1
    IN  [k \in 1..Cardinality(S) |-> nth(k)]

FreeSlots(filled) == Where([s \in Slots |-> ~filled[s]])

\* assert len(np.where(~instb_filled)[0]) > len(ixs)
Admits(nfree, n) == nfree > n

\* a write into the first slots of the buffer, filled or not
StoreFromFirst(buf, filled, insts) ==
    [ok |-> Len(insts) <= BufferSize,
     instb |-> [s \in Slots |-> IF s <= Len(insts) THEN insts[s] ELSE buf[s]],
     filled |-> [s \in Slots |-> filled[s] \/ s <= Len(insts)]]

\* instb[ib] = insts; instb_filled[ib] = True, with ib the first free slots
Store(buf, filled, insts) ==
    LET free == FreeSlots(filled)
        ib == SubSeq(free, 1, IF Len(insts) < Len(free) THEN Len(insts) ELSE Len(free))
        at(s) == CHOOSE k \in 1..Len(ib) : ib[k] = s
    IN  [ok |-> Len(ib) = Len(insts) \/ Len(insts) = 1,
         instb |-> [s \in Slots |->
                      IF s \in Range(ib)
                      THEN insts[IF Len(insts) = 1 THEN 1 ELSE at(s)]
                      ELSE buf[s]],
         filled |-> [s \in Slots |-> filled[s] \/ s \in Range(ib)]]

\* "Primary instructions must be sorted by signal time" (line 834);
\* instructions of one time are listed by type
SortedByTime(a) ==
    \A k \in 1..(Len(a) - 1) :
        \/ a[k].time < a[k + 1].time
        \/ a[k].time = a[k + 1].time /\ a[k].type <= a[k + 1].type

\* the instructions a sequence of slots holds
Held(buf, run) == [k \in 1..Len(run) |-> buf[run[k]]]

(***************************************************************************)
(* sim_data.  The signal models (S1, S2, the afterpulse classes) are       *)
(* random: what a call produces is any outcome they can produce.           *)
(***************************************************************************)
\* overrides that are put back when sim_data is done
ApplyOverridesScoped(cfg, instruction) == cfg

\* lines 918-921: extra instruction fields overwrite the configuration
ApplyOverrides(cfg, instruction) ==
    IF instruction[1].ov # NoOverride
    THEN [cfg EXCEPT !.trigger_window = instruction[1].ov]
    ELSE cfg

\* the pulses one call appends to the cache: none (every photon on a channel
\* that is off or out of range), or one around the sample of the primary
PulseOutcomes(primary) ==
    {<<>>, <<[left |-> primary.time \div sample_duration,
             right |-> primary.time \div sample_duration]>>}

\* drift time of an electron afterpulse below the gate, in ns
DriftTimes == {1, 4}

\* generate_instruction of pi_el (type 4) and pe_el (type 6): copies of the
\* primary with type, time and z replaced, listed by depth
Secondaries(primary, ptype) ==
    LET made == {[type |-> ptype, time |-> primary.time,
                  z |-> -(d * drift_velocity_liquid), ov |-> primary.ov]
                 : d \in DriftTimes}
    IN  UNION {{a \in [1..n -> made] :
                  \A k \in 1..(n - 1) : a[k].z >= a[k + 1].z}
               : n \in 0..MaxSecondary}

\* what sim_data yields, in order: lines 945-951
Yields(instruction, photons) ==
    LET primary == instruction[1]
        name == symtype(primary.type)
        gen(ptype) == IF photons THEN Secondaries(primary, ptype) ELSE {<<>>}
    IN  IF name = "s1" THEN {<<a>> : a \in gen(4)}
        ELSE IF name = "s2" THEN {<<a, b>> : a \in gen(4), b \in gen(6)}
        ELSE {<<>>}

SimOutcomes(instruction) ==
    {[pulses |-> <<>>, yields |-> y] : y \in Yields(instruction, FALSE)}
    \cup {[pulses |-> p, yields |-> y] :
             p \in PulseOutcomes(instruction[1]), y \in Yields(instruction, TRUE)}

\* lines 939-942
EndTime(last, pulses) ==
    IF pulses = <<>> THEN last
    ELSE Max({last} \cup {pulses[k].right * sample_duration : k \in 1..Len(pulses)})

\* lines 890-893: each yielded array is written into the first free slots
RECURSIVE WriteYields(_, _, _)
WriteYields(buf, filled, yields) ==
    IF yields = <<>> THEN [ok |-> TRUE, instb |-> buf, filled |-> filled]
    ELSE LET w == Store(buf, filled, Head(yields))
         IN  IF w.ok THEN WriteYields(w.instb, w.filled, Tail(yields))
             ELSE [ok |-> FALSE, instb |-> buf, filled |-> filled]

(***************************************************************************)
(* digitize_pulse_cache: the window of a non-empty pulse cache.            *)
(***************************************************************************)
\* line 965
WindowLeft(cache, tw) == Min({cache[k].left : k \in 1..Len(cache)}) - tw
\* line 966
WindowRight(cache, tw) == Max({cache[k].right : k \in 1..Len(cache)}) + tw
\* line 967: assert self.right - self.left < 200000
NotTooLong(l, r) == r - l < WindowCap
\* a window that starts where the cache starts, whatever its parity
OddLeftKept(l) == l
\* line 969: if self.left % 2 != 0: self.left -= 1
EvenLeft(l) == IF l % 2 # 0 THEN l - 1 ELSE l

(***************************************************************************)
(* The main loop of RawData.__call__, lines 848-904.                       *)
(***************************************************************************)
InputTypes == {1, 2, 4, 5, 6}
ZValues == {-drift_velocity_liquid}
OverrideValues == {0, 2}

InstDomain(types, ovs) ==
    [type : types, time : 0..MaxTime, z : ZValues, ov : ovs]

\* input arrays of up to n instructions
Arrays(n, types, ovs) ==
    UNION {{a \in [1..m -> InstDomain(types, ovs)] : SortedByTime(a)} : m \in 1..n}

\* any type, no extra field; or s1 and pi_el, one more than the buffer holds
Inputs ==
    Arrays(MaxInst, InputTypes, {NoOverride})
    \cup Arrays(BufferSize + 1, {1, 4}, {NoOverride})
\* one or two s1 or s2 with an extra field that overrides trigger_window
InputsWithOverride == Arrays(2, {1, 2}, OverrideValues)

\* the rows of the truth buffer the caller hands over
TruthRows == 2
\* the instructions of the runs with a truth buffer
InputsWithTruth == Arrays(2, {1, 2, 4}, {NoOverride})
EmptyTruth == [r \in 1..TruthRows |-> [fill |-> FALSE, type |-> 0, time |-> 0]]

\* np.argmin(truth_buffer['fill']), line 1066: the first row of the least fill
\* flag, which is the first row when every row is filled
ArgminFill(tb) ==
    IF \E r \in 1..Len(tb) : ~tb[r].fill
    THEN Min({r \in 1..Len(tb) : ~tb[r].fill})
    ELSE 1

\* get_truth, lines 1059-1118, for the fields the instruction gives the row:
\* an afterpulse without photons leaves the buffer as it is (line 1083)
GetTruth(tb, instruction, photons) ==
    IF symtype(instruction[1].type) \notin {"s1", "s2"} /\ ~photons
    THEN tb
    ELSE [tb EXCEPT ![ArgminFill(tb)] =
             [fill |-> TRUE, type |-> instruction[1].type,
              time |-> instruction[1].time]]

IdlePulse ==
    /\ ppc = "idle" /\ photon_timings = <<>> /\ photon_gains = <<>>
    /\ pulse_left = 0 /\ i_photons = <<>> /\ ip = 0 /\ gain_total = 0
    /\ tmp_photon_timing = 0 /\ deposits = <<>>

IdleCall ==
    /\ cpc = "idle" /\ todo = <<>> /\ counts_start = 0
    /\ pulse = [photon_timings |-> <<>>, photon_channels |-> <<>>,
                has_gains |-> FALSE, photon_gains |-> <<>>, pulses |-> <<>>]

IdleZLE ==
    /\ zpc = "idle" /\ zix = 0 /\ records = <<>> /\ touched = {}
    /\ IdleCall

IdleDigit ==
    /\ dpc = "idle" /\ dcache = <<>> /\ detector = "XENON1T"
    /\ raw_data = <<>> /\ channel_mask = <<>>
    /\ IdleZLE

IdleSched ==
    /\ pc = "idle" /\ instructions = <<>> /\ inst_time = <<>> /\ inst_queue = <<>>
    /\ instb = <<>> /\ instb_filled = <<>> /\ source_finished = FALSE
    /\ last_pulse_end_time = NegInf /\ pulses_cache = <<>>
    /\ config = [trigger_window |-> trigger_window]
    /\ instb_indx = <<>> /\ instb_time = <<>> /\ instb_type = <<>>
    /\ instb_queue = <<>> /\ ci = 0 /\ bi = 0 /\ stop_at_this_group = FALSE
    /\ hist = [refused |-> "no", override |-> NoOverride]
    /\ truth_buffer = <<>>

\* lines 826-844
Setup(input, truths) ==
    /\ instructions \in input
    /\ truth_buffer \in truths
    /\ inst_time = [k \in 1..Len(instructions) |-> InstTime(instructions[k])]
    /\ inst_queue = LET q == Cluster(inst_time)
                    IN  [c \in 1..Len(q) |-> Held(instructions, q[c])]
    /\ instb = [s \in Slots |-> ZeroInst]
    /\ instb_filled = [s \in Slots |-> FALSE]
    /\ source_finished = FALSE
    /\ last_pulse_end_time = NegInf
    /\ pulses_cache = <<>>
    /\ config = [trigger_window |-> trigger_window]
    /\ instb_indx = <<>> /\ instb_time = <<>> /\ instb_type = <<>>
    /\ instb_queue = <<>> /\ ci = 0 /\ bi = 0 /\ stop_at_this_group = FALSE
    /\ hist = [refused |-> "no", override |-> NoOverride]
    /\ pc = "A"
    /\ left = 0 /\ right = 0
    /\ IdlePulse /\ IdleDigit

Init == Setup(Inputs, {<<>>})
InitOverride == Setup(InputsWithOverride, {<<>>})
\* the scheduler with a truth buffer to fill
InitTruth == Setup(InputsWithTruth, {EmptyTruth})

\* A) lines 851-859.  The bare except swallows the IndexError of popping an
\* empty list and the AssertionError of a cluster that is not let in alike.
\* inst_queue carries the instructions themselves, so the input array and
\* its effective times, which nothing reads after the set-up, are let go.
Admit ==
    /\ pc = "A"
    /\ instructions' = <<>>
    /\ inst_time' = <<>>
    /\ IF inst_queue = <<>>
       THEN UNCHANGED <<inst_queue, source_finished, instb, instb_filled, hist>>
       ELSE LET ixs == Head(inst_queue)
                nfree == Len(FreeSlots(instb_filled))
                w == Store(instb, instb_filled, ixs)
            IN  /\ inst_queue' = Tail(inst_queue)
                /\ source_finished' = (Tail(inst_queue) = <<>>)
                /\ IF Admits(nfree, Len(ixs))
                   THEN /\ instb' = w.instb
                        /\ instb_filled' = w.filled
                        /\ UNCHANGED hist
                   ELSE /\ UNCHANGED <<instb, instb_filled>>
                        /\ hist' = [hist EXCEPT !.refused =
                                      IF nfree < Len(ixs) THEN "nofit"
                                      ELSE IF hist.refused = "nofit" THEN "nofit"
                                      ELSE "fits"]
    /\ pc' = "B"
    /\ UNCHANGED <<last_pulse_end_time, pulses_cache,
                   config, instb_indx, instb_time, instb_type, instb_queue,
                   ci, bi, stop_at_this_group, left, right, pulseVars,
                   dpc, dcache, detector, raw_data, channel_mask, zleVars, touched,
                   callVars, truth_buffer>>

\* line 871: np.min(instb_time) - self.last_pulse_end_time > rext
\*           and not np.isinf(self.last_pulse_end_time)
NothingComesRightAfter(times, last) ==
    /\ Min(Range(times)) - last > right_raw_extension
    /\ last # NegInf

\* B) lines 862-868, and the test of C): np.min of an empty array raises
Recluster ==
    /\ pc = "B"
    /\ LET indx == Where(instb_filled)
           times == [k \in 1..Len(indx) |-> InstTime(instb[indx[k]])]
       IN  /\ instb_indx' = indx
           /\ instb_type' = [k \in 1..Len(indx) |-> instb[indx[k]].type]
           /\ instb_time' = times
           /\ instb_queue' = Cluster(times)
           /\ pc' = IF indx = <<>> THEN "crashed"
                    ELSE IF NothingComesRightAfter(times, last_pulse_end_time)
                    THEN "C" ELSE "D"
    /\ ci' = 1 /\ bi' = 1 /\ stop_at_this_group' = FALSE
    /\ UNCHANGED <<instructions, inst_time, inst_queue, instb, instb_filled,
                   source_finished, last_pulse_end_time, pulses_cache, config,
                   hist, left, right, pulseVars,
                   dpc, dcache, detector, raw_data, channel_mask, zleVars, touched,
                   callVars, truth_buffer>>

\* a digitizer that keeps the pulses it has put into the window
DigitizeKeepsCache(next) ==
    IF pulses_cache = <<>>
    THEN /\ pc' = next
         /\ UNCHANGED <<pulses_cache, left, right>>
    ELSE LET l == WindowLeft(pulses_cache, config.trigger_window)
             r == WindowRight(pulses_cache, config.trigger_window)
         IN  /\ right' = r
             /\ left' = IF NotTooLong(l, r) THEN EvenLeft(l) ELSE l
             /\ pc' = IF NotTooLong(l, r) THEN next ELSE "crashed"
             /\ UNCHANGED pulses_cache

\* digitize_pulse_cache followed by ZLE, as the main loop sees them: the
\* cache is drained into one window, or the run ends on "Pulse cache too long"
DigitizeAndEncode(next) ==
    IF pulses_cache = <<>>
    THEN /\ pc' = next
         /\ UNCHANGED <<pulses_cache, left, right>>
    ELSE LET l == WindowLeft(pulses_cache, config.trigger_window)
             r == WindowRight(pulses_cache, config.trigger_window)
         IN  /\ right' = r
             /\ IF NotTooLong(l, r)
                THEN /\ left' = EvenLeft(l)
                     /\ pulses_cache' = <<>>
                     /\ pc' = next
                ELSE /\ left' = l
                     /\ pc' = "crashed"
                     /\ UNCHANGED pulses_cache

\* C) lines 871-873
PushCache ==
    /\ pc = "C"
    /\ DigitizeAndEncode("D")
    /\ UNCHANGED <<instructions, inst_time, inst_queue, instb, instb_filled,
                   source_finished, last_pulse_end_time, config, instb_indx,
                   instb_time, instb_type, instb_queue, ci, bi,
                   stop_at_this_group, hist, pulseVars,
                   dpc, dcache, detector, raw_data, channel_mask, zleVars, touched,
                   callVars, truth_buffer>>

\* a todo list that passes the instructions of every type in one run
RunsBatched(ibqs, ptype) ==
    LET sel == SelectSeq(ibqs, LAMBDA k : instb_type[k] = ptype)
    IN  IF sel = <<>> THEN <<>>
        ELSE <<[k \in 1..Len(sel) |-> instb_indx[sel[k]]]>>

\* lines 879-886: the todo list of one type in one cluster, from the arrays
\* of B): one run per instruction for s1 and s2, one run for a type otherwise
RunsOfType(ibqs, ptype) ==
    LET sel == SelectSeq(ibqs, LAMBDA k : instb_type[k] = ptype)
        instb_run == [k \in 1..Len(sel) |-> instb_indx[sel[k]]]
    IN  IF instb_run = <<>> THEN <<>>
        ELSE IF symtype(ptype) \in {"s1", "s2"}
        THEN [k \in 1..Len(instb_run) |-> <<instb_run[k]>>]
        ELSE <<instb_run>>

\* line 878: for ptype in [1, 2, 4, 6]
Runs(ibqs) ==
    RunsOfType(ibqs, 1) \o RunsOfType(ibqs, 2)
    \o RunsOfType(ibqs, 4) \o RunsOfType(ibqs, 6)


\* a dispatch that frees the slots of the run before sim_data is run: what the
\* run yields is written over free slots that include its own, and the truth
\* is read from the buffer after that
RunBatchFreeFirst ==
    /\ pc = "D"
    /\ ci <= Len(instb_queue)
    /\ bi <= Len(Runs(instb_queue[ci]))
    /\ LET instb_run == Runs(instb_queue[ci])[bi]
           instruction == Held(instb, instb_run)
           freed == [s \in Slots |-> instb_filled[s] /\ s \notin Range(instb_run)]
       IN  \E out \in SimOutcomes(instruction) :
             LET w == WriteYields(instb, freed, out.yields)
             IN  /\ config' = ApplyOverrides(config, instruction)
                 /\ pulses_cache' = pulses_cache \o out.pulses
                 /\ last_pulse_end_time' = EndTime(last_pulse_end_time, out.pulses)
                 /\ instb' = w.instb
                 /\ instb_filled' = w.filled
                 /\ pc' = IF w.ok THEN "D" ELSE "crashed"
                 /\ truth_buffer' =
                      IF w.ok /\ Len(truth_buffer) > 0
                      THEN GetTruth(truth_buffer, Held(w.instb, instb_run), TRUE)
                      ELSE truth_buffer
                 /\ stop_at_this_group' =
                      (stop_at_this_group
                       \/ symtype(instruction[1].type) \in {"s1", "s2"})
                 /\ UNCHANGED hist
    /\ bi' = bi + 1
    /\ UNCHANGED <<instructions, inst_time, inst_queue, source_finished,
                   instb_indx, instb_time, instb_type, instb_queue, ci,
                   left, right, pulseVars,
                   dpc, dcache, detector, raw_data, channel_mask, zleVars, touched,
                   callVars>>

\* D) lines 888-898: one run is simulated, what it yields is written into
\* the buffer, and its slots are freed
RunBatch ==
    /\ pc = "D"
    /\ ci <= Len(instb_queue)
    /\ bi <= Len(Runs(instb_queue[ci]))
    /\ LET instb_run == Runs(instb_queue[ci])[bi]
           instruction == Held(instb, instb_run)
       IN  \E out \in SimOutcomes(instruction) :
             LET w == WriteYields(instb, instb_filled, out.yields)
             IN  /\ config' = ApplyOverrides(config, instruction)
                 /\ pulses_cache' = pulses_cache \o out.pulses
                 /\ last_pulse_end_time' = EndTime(last_pulse_end_time, out.pulses)
                 /\ instb' = w.instb
                 /\ IF w.ok
                    THEN /\ instb_filled' =
                              [s \in Slots |-> w.filled[s] /\ s \notin Range(instb_run)]
                         /\ pc' = "D"
                         /\ \E photons \in {out.pulses # <<>>, TRUE} :
                               truth_buffer' =
                                  IF Len(truth_buffer) > 0
                                  THEN GetTruth(truth_buffer,
                                                Held(w.instb, instb_run), photons)
                                  ELSE truth_buffer
                    ELSE /\ instb_filled' = w.filled
                         /\ pc' = "crashed"
                         /\ UNCHANGED truth_buffer
                 /\ stop_at_this_group' =
                      (stop_at_this_group
                       \/ symtype(instruction[1].type) \in {"s1", "s2"})
                 /\ hist' = [hist EXCEPT !.override =
                               IF instruction[1].ov # NoOverride
                               THEN instruction[1].ov ELSE @]
    /\ bi' = bi + 1
    /\ UNCHANGED <<instructions, inst_time, inst_queue, source_finished,
                   instb_indx, instb_time, instb_type, instb_queue, ci,
                   left, right, pulseVars,
                   dpc, dcache, detector, raw_data, channel_mask, zleVars, touched,
                   callVars>>

\* a loop over the clusters that goes on after a cluster with a primary
NeverBreak ==
    /\ pc = "D"
    /\ ci <= Len(instb_queue)
    /\ bi > Len(Runs(instb_queue[ci]))
    /\ stop_at_this_group
    /\ DigitizeAndEncode(IF ci = Len(instb_queue) THEN "E" ELSE "D")
    /\ ci' = ci + 1
    /\ bi' = 1
    /\ UNCHANGED <<instructions, inst_time, inst_queue, instb, instb_filled,
                   source_finished, last_pulse_end_time, config, instb_indx,
                   instb_time, instb_type, instb_queue, stop_at_this_group,
                   hist, pulseVars,
                   dpc, dcache, detector, raw_data, channel_mask, zleVars, touched,
                   callVars, truth_buffer>>

\* line 900: if stop_at_this_group: break
BreakGroup ==
    /\ pc = "D"
    /\ ci <= Len(instb_queue)
    /\ bi > Len(Runs(instb_queue[ci]))
    /\ stop_at_this_group
    /\ pc' = "E"
    /\ UNCHANGED <<instructions, inst_time, inst_queue, instb, instb_filled,
                   source_finished, last_pulse_end_time, pulses_cache, config,
                   instb_indx, instb_time, instb_type, instb_queue, ci, bi,
                   stop_at_this_group, hist, left, right, pulseVars,
                   dpc, dcache, detector, raw_data, channel_mask, zleVars, touched,
                   callVars, truth_buffer>>

\* lines 901-902: the cluster is done, its pulses are digitized and encoded
FlushGroup ==
    /\ pc = "D"
    /\ ci <= Len(instb_queue)
    /\ bi > Len(Runs(instb_queue[ci]))
    /\ ~stop_at_this_group
    /\ DigitizeAndEncode(IF ci = Len(instb_queue) THEN "E" ELSE "D")
    /\ ci' = ci + 1
    /\ bi' = 1
    /\ UNCHANGED <<instructions, inst_time, inst_queue, instb, instb_filled,
                   source_finished, last_pulse_end_time, config, instb_indx,
                   instb_time, instb_type, instb_queue, stop_at_this_group,
                   hist, pulseVars,
                   dpc, dcache, detector, raw_data, channel_mask, zleVars, touched,
                   callVars, truth_buffer>>

\* line 904, and the test of the while loop
EndPass ==
    /\ pc = "E"
    /\ source_finished' =
         (inst_queue = <<>> /\ \A s \in Slots : ~instb_filled[s])
    /\ pc' = IF source_finished' THEN "done" ELSE "A"
    /\ UNCHANGED <<instructions, inst_time, inst_queue, instb, instb_filled,
                   last_pulse_end_time, pulses_cache, config, instb_indx,
                   instb_time, instb_type, instb_queue, ci, bi,
                   stop_at_this_group, hist, left, right, pulseVars,
                   dpc, dcache, detector, raw_data, channel_mask, zleVars, touched,
                   callVars, truth_buffer>>

Next ==
    \/ Admit
    \/ Recluster
    \/ PushCache
    \/ RunBatch
    \/ BreakGroup
    \/ FlushGroup
    \/ EndPass

Spec == Init /\ [][Next]_vars

\* the generator runs on for as long as its caller pulls records from it
FairSpec == Spec /\ WF_vars(Next)

\* the scheduler on instructions that carry a configuration override
SpecOverride == InitOverride /\ [][Next]_vars

\* the scheduler with a truth buffer
SpecTruth == InitTruth /\ [][Next]_vars

(***************************************************************************)
(* The scheduler's claims.                                                 *)
(***************************************************************************)
\* the arrays of B) still describe the buffer: nothing was run since
Fresh == pc = "C" \/ (pc = "D" /\ ci = 1 /\ bi = 1)

Stopped == pc \in {"done", "crashed"}

\* C1: a pending cluster that does not fit into the free slots ends the run
\* with a fatal error: once an admission failed for lack of room, the run is
\* either still at the statement after it or over; it never goes on to push
\* the cache, run a batch or end the pass.
C1_ExhaustionIsFatal == hist.refused = "nofit" => pc \in {"B", "crashed"}

\* C2: on every finite input with types among s1, s2, pi_el, pe_el and
\* pmt_ap the main loop eventually stops (with the pending list empty and
\* the buffer free, or on a fatal error).
C2_Terminates == <>Stopped

\* C3: when the main loop ends normally, every pulse sim_data put into the
\* pulse cache has been digitized: the cache is empty.
C3_CacheDrainedAtEnd == pc = "done" => pulses_cache = <<>>

\* effective time as the code computes it: the time for odd types, the time
\* less z / v for even types
OddEvenTime(inst) ==
    IF inst.type % 2 = 1 THEN inst.time
    ELSE inst.time - (inst.z \div drift_velocity_liquid)

\* C4, as written: the effective time of the initial clustering and of every
\* re-clustering is time + z/v * sign(type), sign +1 for even, -1 for odd.
C4_SignedEffectiveTime ==
    /\ \A k \in 1..Len(instructions) :
          inst_time[k] = SignedInstTime(instructions[k])
    /\ Fresh => \A k \in 1..Len(instb_indx) :
          instb_time[k] = SignedInstTime(instb[instb_indx[k]])

\* C4, amended: the effective time of the initial clustering and of every
\* re-clustering is time + z/v * (type % 2 - 1): the time itself for S1-like
\* (odd) types, time - z/v for S2-like (even) types.
C4_EffectiveTime ==
    /\ \A k \in 1..Len(instructions) :
          inst_time[k] = OddEvenTime(instructions[k])
    /\ Fresh => \A k \in 1..Len(instb_indx) :
          instb_time[k] = OddEvenTime(instb[instb_indx[k]])

\* a re-clustered buffer that holds an S1-like and an S2-like instruction
C4_Witness ==
    /\ Fresh
    /\ \E j, k \in 1..Len(instb_indx) :
          /\ instb_type[j] % 2 = 1 /\ instb[instb_indx[j]].z # 0
          /\ instb_type[k] % 2 = 0 /\ instb[instb_indx[k]].z # 0

RECURSIVE Flatten(_)
Flatten(q) == IF q = <<>> THEN <<>> ELSE Head(q) \o Flatten(Tail(q))

\* the cluster of q that holds the m-th item of Flatten(q)
ClusterOf(q, m) ==
    CHOOSE c \in 1..Len(q) :
        /\ Len(Flatten(SubSeq(q, 1, c - 1))) < m
        /\ m <= Len(Flatten(SubSeq(q, 1, c)))

\* the clusters q list their items by ascending time, no cluster is empty
\* (but the one cluster of no items at all), and two neighbours of that
\* order share a cluster iff they are at most rext apart; t[m] is the time
\* of the m-th item of Flatten(q)
MaximalRuns(q, t) ==
    /\ \A c \in 1..Len(q) : q[c] # <<>> \/ (Len(q) = 1 /\ t = <<>>)
    /\ \A m \in 1..(Len(t) - 1) :
          /\ t[m] <= t[m + 1]
          /\ (ClusterOf(q, m) = ClusterOf(q, m + 1))
               <=> (t[m + 1] - t[m] <= right_raw_extension)

\* f lists the items of g, each as often as g does
SameItems(f, g) ==
    /\ Len(f) = Len(g)
    /\ \A x \in Range(f) \cup Range(g) :
          Cardinality({k \in 1..Len(f) : f[k] = x})
            = Cardinality({k \in 1..Len(g) : g[k] = x})

\* C5: the initial clustering and every re-clustering of the filled slots
\* cut the instructions, sorted by effective time, into maximal runs: two
\* neighbours share a cluster iff their gap is <= rext, and every instruction
\* is in exactly one cluster.
C5_MaximalRuns ==
    /\ instructions # <<>> =>
          LET f == Flatten(inst_queue)
              at(r) == CHOOSE k \in 1..Len(instructions) : instructions[k] = r
          IN  /\ SameItems(f, instructions)
              /\ MaximalRuns(inst_queue,
                             [m \in 1..Len(f) |-> inst_time[at(f[m])]])
    /\ LET f == Flatten(instb_queue)
       IN  /\ SameItems(f, [k \in 1..Len(instb_indx) |-> k])
           /\ MaximalRuns(instb_queue, [m \in 1..Len(f) |-> instb_time[f[m]]])
    /\ Fresh => Range(instb_indx) = {s \in Slots : instb_filled[s]}

\* a re-clustering of a leftover secondary and a newly admitted instruction
\* that keeps the two, exactly rext apart, in one cluster
C5_Witness ==
    /\ Fresh
    /\ \E c \in 1..Len(instb_queue) : \E j, k \in Range(instb_queue[c]) :
          /\ instb_time[k] - instb_time[j] = right_raw_extension
          /\ instb_type[j] # instb_type[k]

\* C6, as written: a step of the scheduler, and so every whole sim_data call,
\* leaves each configuration key it overrode at the value it had before.
C6_OverridesScoped == [][config' = config]_vars

\* C6, amended: an override is not undone: from the end of the sim_data call
\* on, the key holds the value of the last instruction that overrode it
\* (its configured value as long as none did).
C6_OverridesPersist ==
    config.trigger_window =
       IF hist.override = NoOverride THEN trigger_window ELSE hist.override

\* two instructions with different overrides have been simulated
C6_Witness ==
    /\ hist.override # NoOverride
    /\ config.trigger_window # trigger_window
    /\ \E s \in Slots : instb_filled[s] /\ instb[s].ov # hist.override

(***************************************************************************)
(* Pulse.add_current: the photons of one channel become template deposits. *)
(***************************************************************************)
\* photons of one channel
MaxPhotons == 3
\* photon arrival times in ns, after astype(int) (line 110)
PhotonTimes == {-5, 100, 105}
PhotonGains == {1, 2}
samples_to_store_before == 2

\* the orders np.argsort may return: ties are in no particular order
Argsorts(t) ==
    {p \in [1..Len(t) -> 1..Len(t)] :
        /\ \A j, k \in 1..Len(t) : j # k => p[j] # p[k]
        /\ \A k \in 1..(Len(t) - 1) : t[p[k]] <= t[p[k + 1]]}

\* a group whose first photon overwrites the running gain
Restart(total, gain) == gain

\* line 240
Accumulate(total, gain) == total + gain

\* a deposit whose sample is found by a division that rounds towards zero
DepositTruncated(timing, gain, pleft) ==
    [start |-> (IF timing >= 0 THEN timing \div sample_duration
                ELSE -((-timing) \div sample_duration)) - pleft,
     reminder |-> timing % sample_duration,
     gain |-> gain]

\* lines 232-235 and 242-245: the template of the reminder, scaled by the
\* gain, is added from sample start on
Deposit(timing, gain, pleft) ==
    [start |-> (timing \div sample_duration) - pleft,
     reminder |-> timing % sample_duration,
     gain |-> gain]

\* the call made by Pulse.__call__, lines 104-115
InitPulse ==
    /\ \E n \in 0..MaxPhotons :
          /\ photon_timings \in [1..n -> PhotonTimes]
          /\ photon_gains \in [1..n -> PhotonGains]
    /\ pulse_left = IF photon_timings = <<>> THEN 0
                    ELSE (Min(Range(photon_timings)) \div sample_duration)
                           - samples_to_store_before
    /\ ppc = "start"
    /\ i_photons = <<>> /\ ip = 0 /\ gain_total = 0
    /\ tmp_photon_timing = 0 /\ deposits = <<>>
    /\ IdleSched /\ left = 0 /\ right = 0 /\ IdleDigit

\* lines 220-229
SortPhotons ==
    /\ ppc = "start"
    /\ IF photon_timings = <<>>
       THEN /\ ppc' = "done"
            /\ UNCHANGED <<i_photons, ip, tmp_photon_timing>>
       ELSE /\ i_photons' \in Argsorts(photon_timings)
            /\ tmp_photon_timing' = photon_timings[i_photons'[1]]
            /\ ip' = 1
            /\ ppc' = "loop"
    /\ gain_total' = 0
    /\ UNCHANGED <<photon_timings, photon_gains, pulse_left, deposits,
                   schedVars, digitVars, zleVars, touched, callVars>>

\* one turn of the loop, lines 230-240
NextPhoton ==
    /\ ppc = "loop" /\ ip <= Len(i_photons)
    /\ LET i == i_photons[ip]
       IN  IF photon_timings[i] > tmp_photon_timing
           THEN /\ deposits' = Append(deposits,
                       Deposit(tmp_photon_timing, gain_total, pulse_left))
                /\ gain_total' = photon_gains[i]
                /\ tmp_photon_timing' = photon_timings[i]
           ELSE /\ gain_total' = Accumulate(gain_total, photon_gains[i])
                /\ UNCHANGED <<deposits, tmp_photon_timing>>
    /\ ip' = ip + 1
    /\ UNCHANGED <<ppc, photon_timings, photon_gains, pulse_left, i_photons,
                   schedVars, digitVars, zleVars, touched, callVars>>

\* the else of the loop, lines 241-245
FlushLast ==
    /\ ppc = "loop" /\ ip > Len(i_photons)
    /\ deposits' = Append(deposits,
                          Deposit(tmp_photon_timing, gain_total, pulse_left))
    /\ ppc' = "done"
    /\ UNCHANGED <<photon_timings, photon_gains, pulse_left, i_photons, ip,
                   gain_total, tmp_photon_timing, schedVars, digitVars, zleVars, touched, callVars>>

NextPulse ==
    \/ SortPhotons
    \/ NextPhoton
    \/ FlushLast

SpecPulse == InitPulse /\ [][NextPulse]_vars

\* the distinct values of t, ascending
RECURSIVE Ascending(_)
Ascending(S) ==
    IF S = {} THEN <<>> ELSE <<Min(S)>> \o Ascending(S \ {Min(S)})

RECURSIVE GainAt(_, _, _)
GainAt(t, g, v) ==
    IF t = <<>> THEN 0
    ELSE (IF Head(t) = v THEN Head(g) ELSE 0) + GainAt(Tail(t), Tail(g), v)

\* C7: add_current makes exactly one deposit per distinct timing, in ascending
\* order of the timings, the largest one included; each is scaled by the
\* summed gain of the photons of that timing, uses template timing % dt and
\* starts at sample timing // dt - pulse_left.
C7_OneDepositPerTiming ==
    ppc = "done" =>
       LET ts == Ascending(Range(photon_timings))
       IN  /\ Len(deposits) = Len(ts)
           /\ \A k \in 1..Len(ts) :
                 /\ deposits[k].gain = GainAt(photon_timings, photon_gains, ts[k])
                 /\ deposits[k].reminder + sample_duration *
                       (deposits[k].start + pulse_left) = ts[k]
                 /\ deposits[k].reminder \in 0..(sample_duration - 1)

\* timings {100, 100, 105} with gains {1, 1, 2}: gain 2 at phase 0, then
\* gain 2 at phase 5
C7_Witness ==
    /\ ppc = "done"
    /\ photon_timings = <<100, 100, 105>> /\ photon_gains = <<1, 1, 2>>
    /\ deposits = <<[start |-> 2, reminder |-> 0, gain |-> 2],
                    [start |-> 2, reminder |-> 5, gain |-> 2]>>

(***************************************************************************)
(* RawData.digitize_pulse_cache, lines 954-1017, on a detector of four     *)
(* channels: a top PMT, a bottom PMT, the high-energy copy of the top PMT  *)
(* and the sum channel of the bottom array.                                *)
(***************************************************************************)
\* pulses in the cache
MaxPulses == 2
channels_top == <<0>>
channels_bottom == <<1>>
channels_top_high_energy == [ch \in {0} |-> 2]
\* config['channels_in_detector']['sum_signal'], a row of raw_data
sum_signal == 3
\* rows of raw_data (801 in the source, line 972)
Channels == 0..3
high_energy_deamplification_factor == 2
digitizer_reference_baseline == 2
\* lines 961-963, as a fraction
current_2_adc == <<3, 2>>
\* the initial left of a channel's mask (2^63 - 1 in the source)
i8max == 1000
\* self.resource.noise_data
noise_data_length == 12
noise_data == [i \in 0..(noise_data_length - 1) |-> (i % 3) - 1]
\* the values np.random.randint is let to return
NoiseOffsets == {0, 1}

PulseLefts == {-3, -2, 0}
PulseRights == {0, 1}
PulseCurrents == {1, 5}

\* a pulse as Pulse.__call__ stores it, lines 118-124
CachedPulses ==
    {[channel |-> ch, left |-> l, right |-> r,
      current |-> [k \in 1..(r - l + 1) |-> c]] :
        ch \in {0, 1}, l \in PulseLefts, r \in PulseRights, c \in PulseCurrents}

\* np.trunc of n / d
Trunc(n, d) == IF n >= 0 THEN n \div d ELSE -((-n) \div d)

\* line 985
AdcWave(current) ==
    [k \in 1..Len(current) |->
        -Trunc(current[k] * current_2_adc[1], current_2_adc[2])]

\* row[from : from + len(wave)] += wave
AddWave(row, from, wave) ==
    [ix \in DOMAIN row |->
        IF from <= ix /\ ix < from + Len(wave)
        THEN row[ix] + wave[ix - from + 1] ELSE row[ix]]

\* one turn of the loop over the cache, lines 981-1002
AddPulse(st, p, det, wleft) ==
    LET ch == p.channel
        l == Min({p.left, st.mask[ch].left})
        r == Max({p.right, st.mask[ch].right})
        adc_wave == AdcWave(p.current)
        adc_wave_he == [k \in 1..Len(adc_wave) |->
                           adc_wave[k] * high_energy_deamplification_factor]
        from == p.left - wleft
        raw1 == [st.raw EXCEPT ![ch] = AddWave(@, from, adc_wave)]
        mask1 == [st.mask EXCEPT ![ch] = [mask |-> TRUE, left |-> l, right |-> r]]
    IN  IF det # "XENONnT" THEN [raw |-> raw1, mask |-> mask1]
        ELSE IF ch <= channels_top[Len(channels_top)]
        THEN LET ch_he == channels_top_high_energy[ch]
             IN  [raw |-> [raw1 EXCEPT ![ch_he] = AddWave(@, from, adc_wave_he)],
                  mask |-> [mask1 EXCEPT ![ch_he] =
                               [mask |-> TRUE, left |-> l, right |-> r]]]
        ELSE IF ch <= channels_bottom[Len(channels_bottom)]
        THEN [raw |-> [raw1 EXCEPT ![sum_signal] = AddWave(@, from, adc_wave_he)],
              mask |-> mask1]
        ELSE [raw |-> raw1, mask |-> mask1]

RECURSIVE AddPulses(_, _, _, _)
AddPulses(st, cache, det, wleft) ==
    IF cache = <<>> THEN st
    ELSE AddPulses(AddPulse(st, Head(cache), det, wleft), Tail(cache), det, wleft)

\* the rows of raw_data that lines 988, 994 and 999-1002 add a wave to
Deposited(cache, det) ==
    UNION {{cache[k].channel} \cup
           (IF det # "XENONnT" THEN {}
            ELSE IF cache[k].channel <= channels_top[Len(channels_top)]
            THEN {channels_top_high_energy[cache[k].channel]}
            ELSE IF cache[k].channel <= channels_bottom[Len(channels_bottom)]
            THEN {sum_signal} ELSE {})
           : k \in 1..Len(cache)}

\* lines 1006-1007
ShiftMask(mask, wleft, tw) ==
    [ch \in DOMAIN mask |->
        [mask |-> mask[ch].mask,
         left |-> mask[ch].left - (wleft + tw),
         right |-> mask[ch].right - (wleft - tw)]]

\* kernels that run over the whole row of every channel
Everywhere(mask, ch, row) == DOMAIN row

\* the samples of channel ch that the mask lets the three kernels touch
Active(mask, ch, row) ==
    IF mask[ch].mask
    THEN {ix \in DOMAIN row : mask[ch].left <= ix /\ ix <= mask[ch].right}
    ELSE {}

InitDigit ==
    /\ \E n \in 0..MaxPulses : dcache \in [1..n -> CachedPulses]
    /\ detector \in {"XENON1T", "XENONnT"}
    /\ dpc = "start"
    /\ left = 0 /\ right = 0
    /\ raw_data = <<>> /\ channel_mask = <<>>
    /\ IdleSched /\ IdlePulse /\ IdleZLE

\* lines 958-978
OpenWindow ==
    /\ dpc = "start"
    /\ IF dcache = <<>>
       THEN /\ dpc' = "done"
            /\ raw_data' = <<>>
            /\ UNCHANGED <<left, right, channel_mask>>
       ELSE LET l == WindowLeft(dcache, config.trigger_window)
                r == WindowRight(dcache, config.trigger_window)
            IN  /\ right' = r
                /\ IF NotTooLong(l, r)
                   THEN /\ left' = EvenLeft(l)
                        /\ raw_data' = [ch \in Channels |->
                                           [ix \in 0..(r - left') |-> 0]]
                        /\ channel_mask' = [ch \in Channels |->
                              [mask |-> FALSE, left |-> i8max, right |-> 0]]
                        /\ dpc' = "pulses"
                   ELSE /\ left' = l
                        /\ dpc' = "crashed"
                        /\ UNCHANGED <<raw_data, channel_mask>>
    /\ UNCHANGED <<dcache, detector, schedVars, pulseVars, zleVars, touched, callVars>>

\* lines 980-1007
Superimpose ==
    /\ dpc = "pulses"
    /\ LET st == AddPulses([raw |-> raw_data, mask |-> channel_mask],
                           dcache, detector, left)
       IN  /\ raw_data' = st.raw
           /\ channel_mask' = ShiftMask(st.mask, left, config.trigger_window)
    /\ touched' = Deposited(dcache, detector)
    /\ dcache' = <<>>
    /\ dpc' = "noise"
    /\ UNCHANGED <<detector, left, right, schedVars, pulseVars, zleVars,
                   callVars>>

\* add_noise, lines 1128-1141, with one random offset per active channel
AddNoise ==
    /\ dpc = "noise"
    /\ \E id_t \in [Channels -> NoiseOffsets] :
          /\ \A ch \in Channels : channel_mask[ch].mask =>
                id_t[ch] < noise_data_length
                             - channel_mask[ch].right + channel_mask[ch].left
          /\ \A ch \in Channels : ~channel_mask[ch].mask => id_t[ch] = 0
          /\ raw_data' = [ch \in Channels |-> [ix \in DOMAIN raw_data[ch] |->
                IF /\ ix \in Active(channel_mask, ch, raw_data[ch])
                   /\ id_t[ch] + ix < noise_data_length
                THEN raw_data[ch][ix] + noise_data[id_t[ch] + ix]
                ELSE raw_data[ch][ix]]]
    /\ dpc' = "baseline"
    /\ UNCHANGED <<dcache, detector, left, right, channel_mask,
                   schedVars, pulseVars, zleVars, touched, callVars>>

\* add_baseline, lines 1145-1151
AddBaseline ==
    /\ dpc = "baseline"
    /\ raw_data' = [ch \in Channels |-> [ix \in DOMAIN raw_data[ch] |->
          IF ix \in Active(channel_mask, ch, raw_data[ch])
          THEN raw_data[ch][ix] + digitizer_reference_baseline
          ELSE raw_data[ch][ix]]]
    /\ dpc' = "saturation"
    /\ UNCHANGED <<dcache, detector, left, right, channel_mask,
                   schedVars, pulseVars, zleVars, touched, callVars>>

\* digitizer_saturation, lines 1155-1162
DigitizerSaturation ==
    /\ dpc = "saturation"
    /\ raw_data' = [ch \in Channels |-> [ix \in DOMAIN raw_data[ch] |->
          IF ix \in Active(channel_mask, ch, raw_data[ch]) /\ raw_data[ch][ix] < 0
          THEN 0 ELSE raw_data[ch][ix]]]
    /\ dpc' = "done"
    /\ UNCHANGED <<dcache, detector, left, right, channel_mask,
                   schedVars, pulseVars, zleVars, touched, callVars>>

NextDigit ==
    \/ OpenWindow
    \/ Superimpose
    \/ AddNoise
    \/ AddBaseline
    \/ DigitizerSaturation

SpecDigit == InitDigit /\ [][NextDigit]_vars

\* C8: the window of a non-empty cache has right = max(pulse.right) +
\* trigger_window and left = min(pulse.left) - trigger_window, lowered by one
\* when that is odd: left is even, also when negative, and every cached pulse
\* lies inside [left, right].
C8_WindowBounds ==
    dpc = "pulses" =>
       LET lo == Min({dcache[k].left : k \in 1..Len(dcache)})
                   - config.trigger_window
           hi == Max({dcache[k].right : k \in 1..Len(dcache)})
                   + config.trigger_window
       IN  /\ right = hi
           /\ left \in {lo - 1, lo}
           /\ (left = lo - 1) <=> (lo % 2 = 1)
           /\ left % 2 = 0
           /\ \A k \in 1..Len(dcache) :
                 left <= dcache[k].left /\ dcache[k].right <= right

\* a window whose left, before the parity step, is odd and negative
C8_Witness ==
    /\ dpc = "pulses"
    /\ left < 0
    /\ left = Min({dcache[k].left : k \in 1..Len(dcache)})
                - config.trigger_window - 1

\* C9: every buffer digitize_pulse_cache creates spans right - left strictly
\* less than the cap; a cache whose window would reach the cap ends the run.
C9_SpanBelowCap ==
    dpc \in {"pulses", "noise", "baseline", "saturation"} =>
       right - left < WindowCap

\* C10: when digitize_pulse_cache returns a buffer, no sample of it is
\* negative, in whatever channel.
C10_NonNegative ==
    (dpc = "done" /\ raw_data # <<>>) =>
       \A ch \in Channels : \A ix \in DOMAIN raw_data[ch] : raw_data[ch][ix] >= 0

(***************************************************************************)
(* RawData.ZLE, lines 1020-1057, run on the buffer and the channel mask    *)
(* that digitize_pulse_cache leaves behind.                                *)
(***************************************************************************)
\* self.config['trigger_window'], as the runs of the encoder are configured
TriggerWindows == {0, 1}
zle_threshold == 0
\* self.config['special_thresholds'], by channel
special_thresholds == [ch \in {2} |-> 1]

\* lines 1035-1039
Threshold(ix) ==
    IF ix \in DOMAIN special_thresholds
    THEN digitizer_reference_baseline - special_thresholds[ix] - 1
    ELSE digitizer_reference_baseline - zle_threshold - 1

\* line 1030: data[channel_left : channel_right + 1], indexed from 0
Slice(row, cl, cr) ==
    LET hi == Min({cr, Max(DOMAIN row)})
    IN  [i \in 0..(hi - cl) |-> row[cl + i]]

\* find_intervals_below_threshold of wfsim.utils: the maximal runs of samples
\* < threshold, by ascending start, two runs being one interval when the
\* distance from the last sample of one to the first sample of the next is
\* at most holdoff; each interval as <<first, last>>
FindIntervals(w, threshold, holdoff) ==
    LET below == {i \in DOMAIN w : w[i] < threshold}
        linked(a, b) ==
            \A i \in a..(b - 1) :
               i \in below \/ \E j \in below : j < i /\ \E k \in below :
                  k > i /\ (\A m \in (j + 1)..(k - 1) : m \notin below)
                        /\ k - j <= holdoff
        starts == {a \in below : \A b \in below : b < a => ~linked(b, a)}
        last(a) == Max({b \in below : b >= a /\ linked(a, b)})
    IN  [n \in 1..Cardinality(starts) |->
            LET a == CHOOSE x \in starts :
                        Cardinality({y \in starts : y < x}) = n - 1
            IN  <<a, last(a)>>]

\* np.clip(x, lo, hi)
Clip(x, lo, hi) == IF x < lo THEN lo ELSE IF x > hi THEN hi ELSE x

\* a start that is taken as it is, whatever its parity
StartKept(n) == n

\* line 1052: np.ceil(n / 2.0) * 2
CeilEven(n) == 2 * ((n + 1) \div 2)

\* line 1053: np.floor(n / 2.0) * 2
FloorEven(n) == 2 * (n \div 2)

\* a padding of one sample more than the trigger window
EncodeWide(itv, tw, len) ==
    <<CeilEven(Clip(itv[1] - tw - 1, 0, len - 1)),
      FloorEven(Clip(itv[2] + tw + 1, 0, len - 1))>>

\* lines 1047-1053: pad by the trigger window, clip to the slice, land on
\* even numbers
Encode(itv, tw, len) ==
    <<CeilEven(Clip(itv[1] - tw, 0, len - 1)),
      FloorEven(Clip(itv[2] + tw, 0, len - 1))>>

\* data[a : b + 1] of a slice indexed from 0
Samples(data, a, b) ==
    LET hi == Min({b, Max(DOMAIN data \cup {-1})})
    IN  [k \in 1..(hi - a + 1) |-> data[a + k - 1]]

\* the intervals ZLE finds in channel ix: lines 1029-1046
Found(ix, tw) ==
    LET cl == channel_mask[ix].left
        data == Slice(raw_data[ix], cl, channel_mask[ix].right)
    IN  FindIntervals(data, Threshold(ix), tw + tw + 1)

\* the intervals of a channel yielded last first
YieldedBackwards(ix, tw) ==
    LET cl == channel_mask[ix].left
        data == Slice(raw_data[ix], cl, channel_mask[ix].right)
        itvs == Found(ix, tw)
    IN  [n \in 1..Len(itvs) |->
            LET itv == Encode(itvs[Len(itvs) + 1 - n], tw,
                              Cardinality(DOMAIN data))
            IN  [channel |-> ix,
                 left |-> left + cl + itv[1],
                 right |-> left + cl + itv[2],
                 data |-> Samples(data, itv[1], itv[2])]]

\* what ZLE yields for channel ix: lines 1029-1057
Yielded(ix, tw) ==
    LET cl == channel_mask[ix].left
        data == Slice(raw_data[ix], cl, channel_mask[ix].right)
        itvs == Found(ix, tw)
    IN  [n \in 1..Len(itvs) |->
            LET itv == Encode(itvs[n], tw, Cardinality(DOMAIN data))
            IN  [channel |-> ix,
                 left |-> left + cl + itv[1],
                 right |-> left + cl + itv[2],
                 data |-> Samples(data, itv[1], itv[2])]]

InitZLE ==
    /\ \E n \in 0..MaxPulses : dcache \in [1..n -> CachedPulses]
    /\ detector \in {"XENON1T", "XENONnT"}
    /\ dpc = "start"
    /\ left = 0 /\ right = 0
    /\ raw_data = <<>> /\ channel_mask = <<>>
    /\ pc = "idle" /\ instructions = <<>> /\ inst_time = <<>>
    /\ inst_queue = <<>> /\ instb = <<>> /\ instb_filled = <<>>
    /\ source_finished = FALSE /\ last_pulse_end_time = NegInf
    /\ pulses_cache = <<>>
    /\ \E tw \in TriggerWindows : config = [trigger_window |-> tw]
    /\ instb_indx = <<>> /\ instb_time = <<>> /\ instb_type = <<>>
    /\ instb_queue = <<>> /\ ci = 0 /\ bi = 0 /\ stop_at_this_group = FALSE
    /\ hist = [refused |-> "no", override |-> NoOverride]
    /\ truth_buffer = <<>>
    /\ IdlePulse
    /\ zpc = "wait" /\ zix = 0 /\ records = <<>> /\ touched = {}
    /\ IdleCall

\* one turn of the loop over the rows of raw_data, lines 1028-1057
ZLEChannel ==
    /\ dpc = "done" /\ zpc = "wait"
    /\ zix \in DOMAIN raw_data
    /\ records' = IF channel_mask[zix].mask
                  THEN records \o Yielded(zix, config.trigger_window)
                  ELSE records
    /\ zix' = zix + 1
    /\ UNCHANGED <<zpc, schedVars, pulseVars, digitVars, touched, callVars>>

\* the loop is over: ZLE returns
ZLEReturn ==
    /\ dpc = "done" /\ zpc = "wait"
    /\ zix \notin DOMAIN raw_data
    /\ zpc' = "done"
    /\ UNCHANGED <<zix, records, schedVars, pulseVars, digitVars, touched,
                   callVars>>

NextZLE ==
    \/ NextDigit
    \/ ZLEChannel
    \/ ZLEReturn

SpecZLE == InitZLE /\ [][NextZLE]_vars

\* the records ZLE yielded for channel ch
RecordsOf(ch) == SelectSeq(records, LAMBDA r : r.channel = ch)

\* the sample of channel ch at absolute position p, p inside its active range
InRange(ch, p) ==
    /\ channel_mask[ch].left <= p - left
    /\ p - left <= channel_mask[ch].right
    /\ p - left \in DOMAIN raw_data[ch]
IsBelow(ch, p) == InRange(ch, p) /\ raw_data[ch][p - left] < Threshold(ch)

\* the maximal runs of samples < threshold of channel ch, as <<first, last>>
\* in absolute positions
BelowRuns(ch) ==
    LET lo == left + channel_mask[ch].left
        hi == left + channel_mask[ch].right
    IN  {<<a, b>> \in (lo..hi) \X (lo..hi) :
            /\ a <= b
            /\ \A p \in a..b : IsBelow(ch, p)
            /\ ~IsBelow(ch, a - 1) /\ ~IsBelow(ch, b + 1)}

\* C11: a channel no cached pulse was deposited on is inactive in the mask,
\* its row stays all zero and ZLE yields nothing for it; ZLE yields records
\* for active channels only.
C11_UntouchedChannelsSilent ==
    (dpc \in {"noise", "baseline", "saturation", "done"} /\ raw_data # <<>>) =>
       /\ \A ch \in Channels \ touched :
             /\ ~channel_mask[ch].mask
             /\ \A ix \in DOMAIN raw_data[ch] : raw_data[ch][ix] = 0
             /\ RecordsOf(ch) = <<>>
       /\ \A n \in 1..Len(records) : channel_mask[records[n].channel].mask

\* ZLE has returned records of a window that left a channel untouched
C11_Witness ==
    /\ zpc = "done" /\ records # <<>>
    /\ detector = "XENONnT"
    /\ Channels \ touched # {}

\* C12: the absolute start and end of every record are even, the start being
\* the padded, clipped start rounded up and the end the padded, clipped end
\* rounded down.
C12_EvenEndpoints ==
    \A n \in 1..Len(records) :
       /\ records[n].left % 2 = 0
       /\ records[n].right % 2 = 0

\* C13: with trigger_window = 0 the intervals of a channel are exactly its
\* maximal runs of samples < threshold: same endpoints, none coalesced.
C13_ExactRuns ==
    (zpc = "done" /\ config.trigger_window = 0) =>
       \A ch \in DOMAIN raw_data : channel_mask[ch].mask =>
          /\ Len(RecordsOf(ch)) = Cardinality(BelowRuns(ch))
          /\ {<<r.left, r.right>> : r \in Range(RecordsOf(ch))} = BelowRuns(ch)

\* C13, amended: with trigger_window = 0 ZLE yields one interval per maximal
\* run of samples < threshold, none coalesced or padded, whose endpoints are
\* the run's, counted from the start of the channel's active range, with the
\* start rounded up and the end rounded down to an even number.
C13_SnappedRuns ==
    (zpc = "done" /\ config.trigger_window = 0) =>
       \A ch \in DOMAIN raw_data : channel_mask[ch].mask =>
          LET lo == left + channel_mask[ch].left
              snapped == {<<lo + (run[1] - lo) + ((run[1] - lo) % 2),
                            lo + (run[2] - lo) - ((run[2] - lo) % 2)>>
                          : run \in BelowRuns(ch)}
          IN  /\ Len(RecordsOf(ch)) = Cardinality(BelowRuns(ch))
              /\ {<<r.left, r.right>> : r \in Range(RecordsOf(ch))} = snapped

\* two runs of one channel, one sample apart, yielded as two intervals
C13_Witness ==
    /\ zpc = "done" /\ config.trigger_window = 0
    /\ \E ch \in DOMAIN raw_data : \E r1, r2 \in BelowRuns(ch) :
          /\ channel_mask[ch].mask
          /\ r2[1] = r1[2] + 2
          /\ Len(RecordsOf(ch)) >= 2

\* C14: every position of a yielded interval has a sample < threshold of the
\* same channel within trigger_window of it, also inside a bridged gap.
C14_NearBelowThreshold ==
    \A n \in 1..Len(records) :
       \A p \in records[n].left..records[n].right :
          \E q \in (p - config.trigger_window)..(p + config.trigger_window) :
             IsBelow(records[n].channel, q)

\* an interval that bridges a gap between two runs and is padded
C14_Witness ==
    /\ config.trigger_window = 1
    /\ \E n \in 1..Len(records) :
          \E p, q \in records[n].left..records[n].right :
             /\ p + 1 < q
             /\ IsBelow(records[n].channel, p)
             /\ IsBelow(records[n].channel, q)
             /\ \A m \in (p + 1)..(q - 1) : ~IsBelow(records[n].channel, m)
             /\ ~IsBelow(records[n].channel, records[n].left)

\* C15: records come by strictly increasing channel and, within a channel,
\* by ascending start.
C15_RecordOrder ==
    \A j, k \in 1..Len(records) : j < k =>
       \/ records[j].channel < records[k].channel
       \/ /\ records[j].channel = records[k].channel
          /\ records[j].left < records[k].left

\* records of two channels, two of them of one channel
C15_Witness ==
    /\ zpc = "done"
    /\ \E j, k \in 1..Len(records) :
          j < k /\ records[j].channel = records[k].channel
    /\ \E j, k \in 1..Len(records) : records[j].channel # records[k].channel

(***************************************************************************)
(* Pulse.__call__, lines 36-124: the photons of a signal become one pulse  *)
(* per channel.                                                            *)
(***************************************************************************)
\* photons in the arrays of one call
MaxCallPhotons == 2
\* line 63: the channels of the neutron veto
nv_channels == 120
\* line 66: the channels of the TPC
tpc_channels == 493
samples_to_store_after == 2
\* self.turned_off_pmts, line 31: the channels of gain 0
turned_off_pmts == {1}
CallChannels == {-1, 0, 1, 120, 493}
\* the values the transit time spread of lines 50-52 adds to a timing
TransitTimes == {0, 5}

\* np.unique(channels, return_counts=True), zipped: <<channel, counts>> by
\* ascending channel
Unique(channels) ==
    LET vals == Ascending(Range(channels))
    IN  [k \in 1..Len(vals) |->
            <<vals[k],
              Cardinality({i \in 1..Len(channels) : channels[i] = vals[k]})>>]

\* lines 62-67
OutOfRange(channel, nv) ==
    0 > channel \/ channel >= (IF nv THEN nv_channels ELSE tpc_channels)

\* a[mask], the mask being channels == channel: line 101
OfChannel(a, channels, channel) ==
    LET idx == SelectSeq([i \in 1..Len(a) |-> i],
                         LAMBDA i : channels[i] = channel)
    IN  [k \in 1..Len(idx) |-> a[idx[k]]]

\* lines 104-124: the pulse of one channel, with the arguments of add_current
\* in place of the current they make
BuildPulse(channel, timings, gains) ==
    [photons |-> Len(timings),
     channel |-> channel,
     left |-> (Min(Range(timings)) \div sample_duration)
                - samples_to_store_before,
     right |-> (Max(Range(timings)) \div sample_duration)
                + samples_to_store_after,
     timings |-> timings,
     gains |-> gains]

\* the photon arrays a signal model leaves in the Pulse object.  has_gains is
\* '_photon_gains' in self.__dict__, the test of lines 49 and 76; pmt_ap marks
\* the object of PMT_Afterpulse, whose photon_afterpulse (lines 796-800)
\* stores the gains it has determined in the attribute _photon_gain
InitCall ==
    /\ \E n \in 0..MaxCallPhotons :
       \E chs \in [1..n -> CallChannels], ts \in [1..n -> PhotonTimes],
          nv \in BOOLEAN, ap \in BOOLEAN :
       \E has \in (IF ap THEN {FALSE} ELSE BOOLEAN) :
       \E gs \in (IF has THEN [1..n -> PhotonGains] ELSE {<<>>}),
          ga \in (IF ap THEN [1..n -> PhotonGains] ELSE {<<>>}) :
          pulse = [photon_timings |-> ts, photon_channels |-> chs,
                   has_gains |-> has, photon_gains |-> gs,
                   pmt_ap |-> ap, photon_gain |-> ga,
                   nv |-> nv, pulses |-> <<>>]
    /\ cpc = "start" /\ todo = <<>> /\ counts_start = 0
    /\ IdleSched /\ IdlePulse /\ left = 0 /\ right = 0
    /\ dpc = "idle" /\ dcache = <<>> /\ detector = "XENON1T"
    /\ raw_data = <<>> /\ channel_mask = <<>>
    /\ zpc = "idle" /\ zix = 0 /\ records = <<>> /\ touched = {}

\* lines 41-58
StartCall ==
    /\ cpc = "start"
    /\ \E tts \in [1..Len(pulse.photon_timings) -> TransitTimes] :
          pulse' = [pulse EXCEPT
             !.pulses = <<>>,
             !.photon_timings =
                 IF pulse.has_gains THEN @
                 ELSE [i \in 1..Len(@) |-> @[i] + tts[i]]]
          /\ (pulse.has_gains => \A i \in 1..Len(tts) : tts[i] = 0)
    /\ counts_start' = 0
    /\ todo' = Unique(pulse.photon_channels)
    /\ cpc' = "loop"
    /\ UNCHANGED <<schedVars, pulseVars, digitVars, zleVars, touched>>

\* one turn of the loop over the channels, lines 58-124
VisitChannel ==
    /\ cpc = "loop" /\ todo # <<>>
    /\ LET channel == Head(todo)[1]
           counts == Head(todo)[2]
           timings == SubSeq(pulse.photon_timings,
                             counts_start + 1, counts_start + counts)
       IN  IF OutOfRange(channel, pulse.nv)
           THEN UNCHANGED <<pulse, counts_start>>
           ELSE /\ counts_start' = counts_start + counts
                /\ IF channel \in turned_off_pmts
                   THEN UNCHANGED pulse
                   ELSE \E gains \in
                          (IF pulse.has_gains
                           THEN {OfChannel(pulse.photon_gains,
                                           pulse.photon_channels, channel)}
                           ELSE [1..Len(timings) -> PhotonGains]) :
                          pulse' = [pulse EXCEPT !.pulses =
                             Append(@, BuildPulse(channel, timings, gains))]
    /\ todo' = Tail(todo)
    /\ UNCHANGED <<cpc, schedVars, pulseVars, digitVars, zleVars, touched>>

\* the loop is over
ReturnCall ==
    /\ cpc = "loop" /\ todo = <<>>
    /\ cpc' = "done"
    /\ UNCHANGED <<pulse, todo, counts_start,
                   schedVars, pulseVars, digitVars, zleVars, touched>>

NextCall ==
    \/ StartCall
    \/ VisitChannel
    \/ ReturnCall

SpecCall == InitCall /\ [][NextCall]_vars

\* lines 58-71 as a function of the arrays: the channel and the timings of
\* every pulse the loop builds, q being the <<channel, counts>> still to visit
RECURSIVE Slices(_, _, _, _)
Slices(q, start, timings, nv) ==
    IF q = <<>> THEN <<>>
    ELSE LET channel == Head(q)[1]
             counts == Head(q)[2]
         IN  IF OutOfRange(channel, nv)
             THEN Slices(Tail(q), start, timings, nv)
             ELSE IF channel \in turned_off_pmts
             THEN Slices(Tail(q), start + counts, timings, nv)
             ELSE <<[channel |-> channel,
                     timings |-> SubSeq(timings, start + 1, start + counts)]>>
                  \o Slices(Tail(q), start + counts, timings, nv)

\* an array without its out-of-range photons
Kept(a) ==
    LET idx == SelectSeq([i \in 1..Len(a) |-> i],
                 LAMBDA i : ~OutOfRange(pulse.photon_channels[i], pulse.nv))
    IN  [k \in 1..Len(idx) |-> a[idx[k]]]

\* the channel and the timings of the pulses in the cache
BuiltPulses ==
    [k \in 1..Len(pulse.pulses) |->
        [channel |-> pulse.pulses[k].channel,
         timings |-> pulse.pulses[k].timings]]

\* C16: when the call returns, the pulses are those the call builds from the
\* arrays without the photons of out-of-range channels (negative or too
\* large): the same channels with the same timings, and, where the gains are
\* given, the gains of the in-range photons of the channel.
C16_OutOfRangeDiscarded ==
    cpc = "done" =>
        /\ BuiltPulses = Slices(Unique(Kept(pulse.photon_channels)), 0,
                                Kept(pulse.photon_timings), pulse.nv)
        /\ pulse.has_gains =>
              \A k \in 1..Len(pulse.pulses) :
                 pulse.pulses[k].gains =
                    OfChannel(Kept(pulse.photon_gains),
                              Kept(pulse.photon_channels),
                              pulse.pulses[k].channel)

(***************************************************************************)
(* The scheduler's claims on admission and dispatch.                       *)
(***************************************************************************)
\* C17: a pending cluster of k instructions is admitted whenever at least k
\* slots of the buffer are free, exactly k included, and only then: the step
\* that takes the cluster off the pending list fills k more slots if and only
\* if the free slots were k or more.
C17_AdmittedWhenRoom ==
    [][(pc = "A" /\ inst_queue # <<>>) =>
          LET k == Len(Head(inst_queue))
              nfree == Len(FreeSlots(instb_filled))
          IN  (nfree >= k) <=> (Len(FreeSlots(instb_filled')) = nfree - k)]_vars

\* C18: an instruction of type 1, 2, 4 or 6 that is stored in the buffer is
\* dispatched to sim_data exactly once.  In every step: the slots of the run
\* that is dispatched are filled, and they are free after the step unless the
\* run ends in it, so no instruction is dispatched twice; a filled slot keeps
\* its instruction, so none is overwritten; a slot is freed only by
\* the dispatch of its run; and the loop ends only on an empty buffer.
C18_DispatchedOnce ==
    [][LET run == IF pc = "D" /\ bi' = bi + 1
                  THEN Range(Runs(instb_queue[ci])[bi]) ELSE {}
       IN  /\ \A s \in Slots :
                /\ s \in run =>
                      /\ instb_filled[s]
                      /\ instb[s].type \in {1, 2, 4, 6}
                      /\ pc' # "crashed" => ~instb_filled'[s]
                /\ instb_filled[s] => instb'[s] = instb[s]
                /\ instb_filled[s] /\ ~instb_filled'[s] => s \in run
           /\ pc' = "done" => \A s \in Slots : ~instb_filled'[s]]_vars

\* a run of the cluster was dispatched and its slots are free again, while
\* the buffer holds a secondary that was written back
C18_Witness ==
    /\ pc = "D" /\ ci <= Len(instb_queue) /\ bi > 1
    /\ \A s \in Range(Runs(instb_queue[ci])[bi - 1]) : ~instb_filled[s]
    /\ \E s \in Slots : instb_filled[s] /\ instb[s].z \notin ZValues

\* C19: within one pass the clusters are dispatched in ascending order of
\* effective time and none is dispatched after a cluster with a primary.
\* The loop never steps back to an earlier cluster; when a run of cluster ci
\* is dispatched, every earlier cluster of the pass lies earlier in effective
\* time, holds no s1 or s2, and has had its instructions of types 4 and 6
\* dispatched, their slots being free until a primary of cluster ci writes
\* a secondary into them; the run holds the instructions the re-clustering
\* saw; and a secondary the step writes goes into a slot of no run still to
\* come in the pass, which stops after this cluster.
C19_AscendingUntilPrimary ==
    [][/\ pc = "D" => ci' >= ci
       /\ (pc = "D" /\ bi' = bi + 1) =>
            LET runs == Runs(instb_queue[ci])
                run == runs[bi]
                later == UNION {Range(runs[j]) : j \in (bi + 1)..Len(runs)}
            IN  /\ \A c \in 1..(ci - 1) : \A k \in Range(instb_queue[c]) :
                      /\ \A j \in Range(instb_queue[ci]) :
                            instb_time[k] < instb_time[j]
                      /\ instb_type[k] \notin {1, 2}
                      /\ instb_type[k] \in {4, 6} =>
                            ~instb_filled[instb_indx[k]] \/ stop_at_this_group
                /\ \A k \in 1..Len(run) : \E j \in Range(instb_queue[ci]) :
                      /\ instb_indx[j] = run[k]
                      /\ instb[run[k]].type = instb_type[j]
                      /\ InstTime(instb[run[k]]) = instb_time[j]
                /\ \A s \in Slots :
                      (instb'[s] # instb[s] \/ (instb_filled'[s] /\ ~instb_filled[s]))
                         => s \notin later /\ stop_at_this_group']_vars

\* the pass stopped after a cluster with a primary: a later cluster is left
\* for the next pass, and a secondary was written back
C19_Witness ==
    /\ pc = "E" /\ stop_at_this_group
    /\ ci < Len(instb_queue)
    /\ \E s \in Slots : instb_filled[s] /\ instb[s].z \notin ZValues

\* C20: within a cluster the types are dispatched in the order s1, s2,
\* pi_el (4), pe_el (6); an s1 or s2 is passed to sim_data alone, and the
\* instructions of type 4, or of type 6, of the cluster are passed in one
\* call.  When a run is dispatched its instructions are of one type; an s1
\* or s2 run holds one instruction; a run of type 4 or 6 holds every
\* instruction of that type the cluster had when it was formed; and the
\* runs of the cluster dispatched before it are of the same or of an
\* earlier type.
C20_TypeOrder ==
    [][(pc = "D" /\ bi' = bi + 1) =>
          LET ibqs == instb_queue[ci]
              runs == Runs(ibqs)
              run == runs[bi]
              ptype == instb[run[1]].type
              ofType == {instb_indx[k] : k \in {j \in Range(ibqs) : instb_type[j] = ptype}}
              seen(s) == instb_type[CHOOSE k \in 1..Len(instb_indx) : instb_indx[k] = s]
          IN  /\ ptype \in {1, 2, 4, 6}
              /\ \A k \in 1..Len(run) : instb[run[k]].type = ptype
              /\ symtype(ptype) \in {"s1", "s2"} => Len(run) = 1
              /\ symtype(ptype) \in {"pi_el", "pe_el"} => Range(run) = ofType
              /\ Range(run) \subseteq ofType
              /\ \A j \in 1..(bi - 1) : seen(runs[j][1]) <= ptype]_vars

\* an s1 or s2 of the cluster was dispatched alone, and the next run is the
\* photo-ionization electrons of the cluster
C20_Witness ==
    /\ pc = "D" /\ ci <= Len(instb_queue) /\ bi = 2
    /\ LET runs == Runs(instb_queue[ci])
       IN  /\ Len(runs) >= 2
           /\ Len(runs[1]) = 1
           /\ ~instb_filled[runs[1][1]]
           /\ \A k \in 1..Len(runs[2]) :
                 instb_filled[runs[2][k]] /\ instb[runs[2][k]].type = 4

(***************************************************************************)
(* The scheduler's claims on the freeing of slots and on the stages.       *)
(***************************************************************************)
\* C21: the slots of a dispatched run are marked free only after sim_data is
\* done with the run, what it yielded is in the buffer, and get_truth has
\* read the run from the buffer.  A slot is freed only in the step that
\* dispatches its run, and not when that step ends the run on an error;
\* the slots of the run were filled while the secondaries were written, so
\* each secondary is in another slot, filled after the step, and the run's
\* slots still hold the instructions that were dispatched; and the row the
\* step fills in the truth buffer is the row of that run.
C21_FreedAfterProcessing ==
    [][LET dispatch == pc = "D" /\ bi' = bi + 1
           run == IF dispatch THEN Runs(instb_queue[ci])[bi] ELSE <<>>
       IN  /\ \A s \in Slots :
                 /\ (instb_filled[s] /\ ~instb_filled'[s]) =>
                       s \in Range(run) /\ pc' # "crashed"
                 /\ s \in Range(run) => instb_filled[s] /\ instb'[s] = instb[s]
                 /\ instb'[s] # instb[s] => instb_filled'[s] /\ s \notin Range(run)
           /\ truth_buffer' # truth_buffer =>
                 /\ dispatch
                 /\ \E r \in 1..Len(truth_buffer) :
                       /\ truth_buffer'[r] =
                             [fill |-> TRUE, type |-> instb[run[1]].type,
                              time |-> instb[run[1]].time]
                       /\ \A q \in 1..Len(truth_buffer) :
                             q # r => truth_buffer'[q] = truth_buffer[q]]_vars

\* a run was dispatched: its slot is free, its secondary is in the buffer and
\* its row is in the truth buffer
C21_Witness ==
    /\ pc = "D" /\ ci <= Len(instb_queue) /\ bi > 1
    /\ \A s \in Range(Runs(instb_queue[ci])[bi - 1]) : ~instb_filled[s]
    /\ \E s \in Slots : instb_filled[s] /\ instb[s].z \notin ZValues
    /\ Len(truth_buffer) > 0 /\ truth_buffer[1].fill

\* C26: get_truth writes only into a row whose fill flag is false: a row that
\* is marked filled is never written again, also when every row of the truth
\* buffer is filled.
C26_FilledRowsKept ==
    [][\A r \in 1..Len(truth_buffer) :
          truth_buffer[r].fill => truth_buffer'[r] = truth_buffer[r]]_vars

\* C22: digitize_pulse_cache leaves the pulse cache empty and each window is
\* encoded once, so no pulse is in two windows.  A step that digitizes and
\* encodes (C, or the end of a cluster in D) and does not end the run leaves
\* the cache empty; on an empty cache it opens no window; and no other step
\* takes a pulse out of the cache or re-orders it: a dispatch appends the
\* pulses it made, every other step leaves the cache as it is.
C22_CacheConsumedOnce ==
    [][LET digitize == pc = "C" \/ (pc = "D" /\ ci' = ci + 1)
       IN  /\ (digitize /\ pc' # "crashed") => pulses_cache' = <<>>
           /\ (digitize /\ pulses_cache = <<>>) => left' = left /\ right' = right
           /\ ~digitize =>
                 /\ Len(pulses_cache') >= Len(pulses_cache)
                 /\ SubSeq(pulses_cache', 1, Len(pulses_cache)) = pulses_cache
                 /\ left' = left /\ right' = right
                 /\ pulses_cache' # pulses_cache => pc = "D" /\ bi' = bi + 1]_vars

\* a window was digitized from a cache of pulses, and the cache is empty
C22_Witness ==
    /\ pc \in {"D", "E"}
    /\ pulses_cache = <<>>
    /\ last_pulse_end_time # NegInf
    /\ left < 0

(***************************************************************************)
(* The claims on the pulses of Pulse.__call__.                             *)
(***************************************************************************)
\* len(pmt_current_templates[0]), line 222
template_length == 3

\* C23: with samples_to_store_after + 1 >= template_length, every deposit of
\* add_current into the pulse that Pulse.__call__ sized for the timings (of
\* either sign) covers samples start .. start + template_length - 1 inside
\* pulse_current, whose length is pulse_right - pulse_left + 1, and takes
\* the template of a reminder in 0 .. dt - 1.
C23_DepositsInBounds ==
    (samples_to_store_after + 1 >= template_length /\ photon_timings # <<>>) =>
        LET built == BuildPulse(0, photon_timings, photon_gains)
        IN  /\ pulse_left = built.left
            /\ \A k \in 1..Len(deposits) :
                  /\ 0 <= deposits[k].start
                  /\ deposits[k].start + template_length
                        <= built.right - built.left + 1
                  /\ deposits[k].reminder \in 0..(sample_duration - 1)

\* add_current is done with photons before and after time 0: the deposit of
\* the last timing ends on the last sample of the pulse
C23_Witness ==
    /\ ppc = "done"
    /\ \E k \in 1..Len(deposits) : deposits[k].start + pulse_left < 0
    /\ \E k \in 1..Len(deposits) :
          /\ deposits[k].start + pulse_left > 0
          /\ deposits[k].start + template_length =
                BuildPulse(0, photon_timings, photon_gains).right - pulse_left + 1

\* C24: when the call returns, the pulse of a channel holds the timings of
\* the photons of that channel, as many times as they occur among them,
\* whatever the order of the photon arrays, and, where the gains are given,
\* the gains of the same photons.
C24_TimingsOfOwnPhotons ==
    cpc = "done" =>
        \A k \in 1..Len(pulse.pulses) :
           LET built == pulse.pulses[k]
               own == OfChannel(pulse.photon_timings, pulse.photon_channels,
                                built.channel)
               Count(a, v) == Cardinality({i \in 1..Len(a) : a[i] = v})
           IN  /\ \A v \in Range(own) \cup Range(built.timings) :
                     Count(built.timings, v) = Count(own, v)
               /\ pulse.has_gains =>
                     built.gains = OfChannel(pulse.photon_gains,
                                             pulse.photon_channels, built.channel)

(***************************************************************************)
(* The shape of the ZLE records.                                           *)
(***************************************************************************)
\* C25: every record ZLE yields has start <= end and carries the
\* end - start + 1 >= 1 samples between them, for every trigger_window and
\* wherever the run lies in the active range of the channel.
C25_NonEmptyRecords ==
    \A n \in 1..Len(records) :
       /\ records[n].left <= records[n].right
       /\ Len(records[n].data) = records[n].right - records[n].left + 1

\* C27: when Pulse.__call__ is run for the PMT afterpulses, whose gains
\* photon_afterpulse has determined, the photon timings get no transit time
\* correction, and every pulse that is built uses the gains determined for
\* the photons of its channel, not sampled ones.
C27_AfterpulseGainsUsed ==
    [][pulse.pmt_ap =>
          /\ cpc = "start" => pulse.photon_timings' = pulse.photon_timings
          /\ (cpc = "loop" /\ Len(pulse.pulses') > Len(pulse.pulses)) =>
                LET built == pulse.pulses'[Len(pulse.pulses')]
                IN  built.gains = OfChannel(pulse.photon_gain,
                                            pulse.photon_channels,
                                            built.channel)]_vars

====
